---- MODULE Spec2Model ----
(***************************************************************************)
(* Model of GatewayRegistryService (health-check variant,                  *)
(* services/repository-logger.service.ts lines 203-481).                   *)
(*                                                                         *)
(* The service runs on a single-threaded event loop.  One action of the    *)
(* model is one run-to-completion slice of the code: a lifecycle call or a *)
(* timer callback up to its first await, or the continuation that runs     *)
(* when an awaited fetch settles.  Requests that were issued and have not  *)
(* settled yet are counted per kind; every live interval timer of the      *)
(* runtime is counted per kind, whether or not the service still holds its *)
(* handle.                                                                 *)
(***************************************************************************)
EXTENDS Integers, FiniteSets, Sequences, TLC

\* ---------------------------------------------------------------- bounds
MaxRegInFlight == 2
MaxHbInFlight == 1
MaxVerInFlight == 1
MaxLiveTimers == 2
MaxCount == 4

\* ------------------------------------------------------ program constants
maxConsecutiveFailures == 3

\* ------------------------------------------------------------------ state
VARIABLES
  config,               \* this.config: the fields getRegistrationInfo() reads
  enabled,              \* config.enabled
  registered,           \* this.registered
  isRetrying,           \* this.isRetrying
  consecutiveFailures,  \* this.consecutiveFailures
  heartbeatTimer,       \* this.heartbeatTimer holds a handle
  retryTimer,           \* this.retryTimer holds a handle
  healthCheckTimer,     \* this.healthCheckTimer holds a handle
  liveHeartbeat,        \* live setInterval timers whose callback is sendHeartbeat
  liveRetry,            \* live setInterval timers whose callback is the retry callback
  liveHealthCheck,      \* live setInterval timers whose callback is verifyRegistration
  regInFlight,          \* register fetches issued and not yet settled
  hbInFlight,           \* heartbeat fetches issued and not yet settled
  verInFlight,          \* verify fetches issued and not yet settled
  startPc,              \* position of onModuleInit: "idle", "awaitReg", "done"
  stopPc,               \* position of onModuleDestroy: "idle", "awaitDereg", "done"
  failuresSince,        \* generic heartbeat failures since the last register/heartbeat success
  ev                    \* the slice that ran last: operation, outcome, what it did

vars == <<config, enabled, registered, isRetrying, consecutiveFailures, heartbeatTimer,
          retryTimer, healthCheckTimer, liveHeartbeat, liveRetry, liveHealthCheck,
          regInFlight, hbInFlight, verInFlight, startPc, stopPc, failuresSince, ev>>

\* The mutable fields of the service and of the runtime as one record, plus
\* what the running slice has done so far (issued, forced) and whether an
\* error is propagating out of the code that ran (thrown).
cur ==
  [registered |-> registered, isRetrying |-> isRetrying,
   consecutiveFailures |-> consecutiveFailures,
   heartbeatTimer |-> heartbeatTimer, retryTimer |-> retryTimer,
   healthCheckTimer |-> healthCheckTimer,
   liveHeartbeat |-> liveHeartbeat, liveRetry |-> liveRetry,
   liveHealthCheck |-> liveHealthCheck,
   regInFlight |-> regInFlight, hbInFlight |-> hbInFlight,
   verInFlight |-> verInFlight,
   issued |-> 0, forced |-> FALSE, thrown |-> FALSE]

\* ------------------------------------------------------- network outcomes
Statuses == {200, 404, 500}

Responses ==
  [kind : {"response"}, status : Statuses] \cup {[kind |-> "error", status |-> 0]}

\* Response.ok
ok(r) == r.kind = "response" /\ r.status >= 200 /\ r.status <= 299

\* How a settled fetch is recorded in ev.outcome (ev.shape and ev.hasSelf
\* record the body of a verify response as it was sent)
outcomeOf(r) ==
  IF r.kind = "error" THEN "error"
  ELSE IF ok(r) THEN "2xx"
  ELSE IF r.status = 404 THEN "404"
  ELSE "non2xx"

\* Bodies of the verify response.  An instance list is the set of its
\* entries: a record with this instance's id, a record with another id, null.
InstanceLists == SUBSET {"self", "other", "null"}

Bodies ==
  [shape : {"array", "objList"}, list : InstanceLists]
    \cup [shape : {"invalid", "null", "objMissing", "objNonArray"}, list : {{}}]

\* verifyRegistration() reads the body (response.json()) of an ok response
\* only
NoBody == [shape |-> "none", list |-> {}]

BodiesOf(r) == IF ok(r) THEN Bodies ELSE {NoBody}

\* ------------------------------------------------------------- operations
\* stopTimers()
stopTimers(s) ==
  LET s1 == IF s.retryTimer
            THEN [s EXCEPT !.retryTimer = FALSE, !.liveRetry = @ - 1] ELSE s
      s2 == IF s1.heartbeatTimer
            THEN [s1 EXCEPT !.heartbeatTimer = FALSE, !.liveHeartbeat = @ - 1] ELSE s1
  IN IF s2.healthCheckTimer
     THEN [s2 EXCEPT !.healthCheckTimer = FALSE, !.liveHealthCheck = @ - 1] ELSE s2

\* register(), up to its await of fetch: the POST is issued
register(s) == [s EXCEPT !.regInFlight = @ + 1, !.issued = @ + 1]

\* attemptRegistration(), up to its await of register()
attemptRegistration(s) == IF s.registered THEN s ELSE register(s)

\* startHeartbeat()
startHeartbeat(s) == [s EXCEPT !.heartbeatTimer = TRUE, !.liveHeartbeat = @ + 1]

\* attemptRegistrationOk with the assignment isRetrying = false left out
attemptRegistrationOk_keepsRetrying(s) ==
  LET s1 == [s EXCEPT !.registered = TRUE]
      s2 == IF s1.retryTimer
            THEN [s1 EXCEPT !.retryTimer = FALSE, !.liveRetry = @ - 1] ELSE s1
  IN startHeartbeat(s2)

\* attemptRegistrationOk with the call of startHeartbeat() left out
attemptRegistrationOk_noHeartbeat(s) ==
  LET s1 == [s EXCEPT !.registered = TRUE, !.isRetrying = FALSE]
  IN IF s1.retryTimer
     THEN [s1 EXCEPT !.retryTimer = FALSE, !.liveRetry = @ - 1] ELSE s1

\* attemptRegistration(), after register() resolved
attemptRegistrationOk(s) ==
  LET s1 == [s EXCEPT !.registered = TRUE, !.isRetrying = FALSE]
      s2 == IF s1.retryTimer
            THEN [s1 EXCEPT !.retryTimer = FALSE, !.liveRetry = @ - 1] ELSE s1
  IN startHeartbeat(s2)

\* attemptRegistrationErr without the test of isRetrying: every failed
\* attempt arms a retry timer
attemptRegistrationErr_alwaysArms(s) ==
  [s EXCEPT !.registered = FALSE, !.isRetrying = TRUE, !.retryTimer = TRUE,
            !.liveRetry = @ + 1]

\* attemptRegistration(), after register() threw
attemptRegistrationErr(s) ==
  LET s1 == [s EXCEPT !.registered = FALSE]
  IN IF ~s1.isRetrying
     THEN [s1 EXCEPT !.isRetrying = TRUE, !.retryTimer = TRUE, !.liveRetry = @ + 1]
     ELSE s1

\* registerResume without the test of response.ok: register() throws only
\* when its fetch rejects
registerResume_ignoresStatus(s, r) ==
  IF r.kind = "error" THEN [s EXCEPT !.thrown = TRUE] ELSE s

\* register(), after its fetch settled with r: a rejected fetch propagates,
\* a response that is not ok makes register() throw
registerResume(s, r) == IF ok(r) THEN s ELSE [s EXCEPT !.thrown = TRUE]

\* attemptRegistrationResume without the try/catch around register(): the
\* error leaves attemptRegistration() and reaches its caller
attemptRegistrationResume_noCatch(s, r) ==
  LET s1 == registerResume([s EXCEPT !.regInFlight = @ - 1], r)
  IN IF ~s1.thrown THEN attemptRegistrationOk(s1) ELSE s1

\* The continuation of attemptRegistration() when the register fetch settles
\* with r: the try block goes on when register() returned, the catch block
\* takes what register() threw
attemptRegistrationResume(s, r) ==
  LET s1 == registerResume([s EXCEPT !.regInFlight = @ - 1], r)
  IN IF ~s1.thrown THEN attemptRegistrationOk(s1)
     ELSE attemptRegistrationErr([s1 EXCEPT !.thrown = FALSE])

\* forceReRegister stopping its timers with stopTimers() instead of
\* clearing the heartbeat timer alone
forceReRegister_stopsAllTimers(s) ==
  LET s1 == [s EXCEPT !.registered = FALSE, !.consecutiveFailures = 0,
                      !.isRetrying = FALSE, !.forced = TRUE]
  IN attemptRegistration(stopTimers(s1))

\* forceReRegister()
forceReRegister(s) ==
  LET s1 == [s EXCEPT !.registered = FALSE, !.consecutiveFailures = 0,
                      !.isRetrying = FALSE, !.forced = TRUE]
      s2 == IF s1.heartbeatTimer
            THEN [s1 EXCEPT !.heartbeatTimer = FALSE, !.liveHeartbeat = @ - 1] ELSE s1
  IN attemptRegistration(s2)

\* handleHeartbeatFailure comparing with > instead of >=
handleHeartbeatFailure_strictThreshold(s) ==
  LET s1 == [s EXCEPT !.consecutiveFailures = @ + 1]
  IN IF s1.consecutiveFailures > maxConsecutiveFailures
     THEN forceReRegister(s1) ELSE s1

\* handleHeartbeatFailure()
handleHeartbeatFailure(s) ==
  LET s1 == [s EXCEPT !.consecutiveFailures = @ + 1]
  IN IF s1.consecutiveFailures >= maxConsecutiveFailures
     THEN forceReRegister(s1) ELSE s1

\* sendHeartbeat without its test of registered: the heartbeat is sent
\* whatever the flag
sendHeartbeat_alwaysSends(s) == [s EXCEPT !.hbInFlight = @ + 1]

\* sendHeartbeat(), up to its first await
sendHeartbeat(s) ==
  IF ~s.registered THEN attemptRegistration(s)
  ELSE [s EXCEPT !.hbInFlight = @ + 1]

\* sendHeartbeatResume without the branch for status 404: a 404 is counted
\* like any other failure
sendHeartbeatResume_counts404(s, r) ==
  LET s1 == [s EXCEPT !.hbInFlight = @ - 1]
  IN IF r.kind = "error" THEN handleHeartbeatFailure(s1)
     ELSE IF ok(r) THEN [s1 EXCEPT !.consecutiveFailures = 0]
     ELSE handleHeartbeatFailure(s1)

\* sendHeartbeat(), after its fetch settled with r
sendHeartbeatResume(s, r) ==
  LET s1 == [s EXCEPT !.hbInFlight = @ - 1]
  IN IF r.kind = "error" THEN handleHeartbeatFailure(s1)
     ELSE IF ok(r) THEN [s1 EXCEPT !.consecutiveFailures = 0]
     ELSE IF r.status = 404 THEN forceReRegister(s1)
     ELSE handleHeartbeatFailure(s1)

\* retryCallback with its test inverted: it re-attempts only when registered
retryCallback_inverted(s) == IF s.registered THEN attemptRegistration(s) ELSE s

\* retryCallback calling register() whatever the value of registered
retryCallback_unguarded(s) == register(s)

\* the retry callback armed by attemptRegistration()
retryCallback(s) == IF ~s.registered THEN attemptRegistration(s) ELSE s

\* startHealthCheck()
startHealthCheck(s) == [s EXCEPT !.healthCheckTimer = TRUE, !.liveHealthCheck = @ + 1]

\* verifyRegistration(), up to its await of fetch
verifyRegistration(s) ==
  IF ~s.registered THEN s ELSE [s EXCEPT !.verInFlight = @ + 1]

\* response.json() rejects, or rawInstances.some is not a function
verifyThrows(b) == b.shape \in {"invalid", "objNonArray"}

\* rawInstances without the fallback to data.instances: only a bare array
\* is read as a listing
rawInstances_arrayOnly(b) == IF b.shape = "array" THEN b.list ELSE {}

\* Array.isArray(data) ? data : (data?.instances || [])
rawInstances(b) == IF b.shape \in {"array", "objList"} THEN b.list ELSE {}

\* found with the comparison against this instance's id left out: any entry
\* that carries an instanceId counts
found_anyInstance(b) == rawInstances(b) \cap {"self", "other"} # {}

\* rawInstances.some(inst => inst?.instanceId === this.config.instanceId)
found(b) == "self" \in rawInstances(b)

\* verifyOutcome without the early return on a response that is not ok: the
\* error body is read as a listing without this instance
verifyOutcome_readsErrorBody(r, b) ==
  IF r.kind = "error" THEN "error"
  ELSE IF ~ok(r) THEN "absent"
  ELSE IF verifyThrows(b) THEN "throws"
  ELSE IF found(b) THEN "present"
  ELSE "absent"

\* verifyOutcome with the catch block treating an unreadable 2xx body as a
\* listing without this instance
verifyOutcome_absentOnThrow(r, b) ==
  IF r.kind = "error" THEN "error"
  ELSE IF ~ok(r) THEN "non2xx"
  ELSE IF verifyThrows(b) THEN "absent"
  ELSE IF found(b) THEN "present"
  ELSE "absent"

\* What verifyRegistration() makes of a settled fetch
verifyOutcome(r, b) ==
  IF r.kind = "error" THEN "error"
  ELSE IF ~ok(r) THEN "non2xx"
  ELSE IF verifyThrows(b) THEN "throws"
  ELSE IF found(b) THEN "present"
  ELSE "absent"

\* verifyRegistration(), after its fetch settled with r and body b
verifyRegistrationResume(s, r, b) ==
  LET s1 == [s EXCEPT !.verInFlight = @ - 1]
  IN IF verifyOutcome(r, b) = "absent" THEN forceReRegister(s1) ELSE s1

\* deregister(), after its fetch settled with r: a rejected fetch throws
\* before the assignment, any response reaches it
deregisterResume(s, r) ==
  IF r.kind = "error" THEN [s EXCEPT !.thrown = TRUE]
  ELSE [s EXCEPT !.registered = FALSE]

\* onModuleDestroy(), after deregister() settled: the catch block logs what
\* deregister() threw
onModuleDestroyResume(s, r) ==
  LET s1 == deregisterResume(s, r)
  IN IF s1.thrown THEN [s1 EXCEPT !.thrown = FALSE] ELSE s1

\* getRegistrationInfo() reporting registered as the negation of isRetrying
getRegistrationInfo_fromRetrying(s) ==
  [registered |-> ~s.isRetrying, serviceName |-> config.serviceName,
   instanceId |-> config.instanceId, baseUrl |-> config.baseUrl,
   gatewayUrl |-> config.gatewayUrl]

\* getRegistrationInfo()
getRegistrationInfo(s) ==
  [registered |-> s.registered, serviceName |-> config.serviceName,
   instanceId |-> config.instanceId, baseUrl |-> config.baseUrl,
   gatewayUrl |-> config.gatewayUrl]

\* ------------------------------------------------------------ transitions
\* The configuration the constructor builds from the environment; the
\* instance lists of a verify body name its instanceId "self".
Configs ==
  {[serviceName |-> "svc", instanceId |-> "self", baseUrl |-> "http://svc:3000",
    gatewayUrl |-> "http://gateway:8080"]}

\* ev.info of a slice that is not a call of getRegistrationInfo()
NoInfo ==
  [registered |-> FALSE, serviceName |-> "", instanceId |-> "", baseUrl |-> "",
   gatewayUrl |-> ""]

WithinBounds(s) ==
  /\ s.regInFlight <= MaxRegInFlight
  /\ s.hbInFlight <= MaxHbInFlight
  /\ s.verInFlight <= MaxVerInFlight
  /\ s.liveHeartbeat <= MaxLiveTimers
  /\ s.liveRetry <= MaxLiveTimers

\* The fields of the service take the values the slice left in s0 (bound
\* once as s, so that the record is computed a single time)
Commit(s0) ==
  \E s \in {s0} :
    /\ WithinBounds(s)
    /\ registered' = s.registered
    /\ isRetrying' = s.isRetrying
    /\ consecutiveFailures' = s.consecutiveFailures
    /\ heartbeatTimer' = s.heartbeatTimer
    /\ retryTimer' = s.retryTimer
    /\ healthCheckTimer' = s.healthCheckTimer
    /\ liveHeartbeat' = s.liveHeartbeat
    /\ liveRetry' = s.liveRetry
    /\ liveHealthCheck' = s.liveHealthCheck
    /\ regInFlight' = s.regInFlight
    /\ hbInFlight' = s.hbInFlight
    /\ verInFlight' = s.verInFlight

Event(op, outcome, s, cfPre) ==
  [op |-> op, outcome |-> outcome, forced |-> s.forced, issued |-> s.issued,
   cfPre |-> cfPre, shape |-> "none", hasSelf |-> FALSE,
   class |-> "none", retryPre |-> FALSE, raised |-> s.thrown,
   info |-> NoInfo]

Bump(n) == IF n < MaxCount THEN n + 1 ELSE n

Init ==
  /\ config \in Configs
  /\ enabled \in BOOLEAN
  /\ registered = FALSE
  /\ isRetrying = FALSE
  /\ consecutiveFailures = 0
  /\ heartbeatTimer = FALSE
  /\ retryTimer = FALSE
  /\ healthCheckTimer = FALSE
  /\ liveHeartbeat = 0
  /\ liveRetry = 0
  /\ liveHealthCheck = 0
  /\ regInFlight = 0
  /\ hbInFlight = 0
  /\ verInFlight = 0
  /\ startPc = "idle"
  /\ stopPc = "idle"
  /\ failuresSince = 0
  /\ ev = [op |-> "init", outcome |-> "none", forced |-> FALSE, issued |-> 0,
           cfPre |-> 0, shape |-> "none", hasSelf |-> FALSE,
           class |-> "none", retryPre |-> FALSE, raised |-> FALSE,
           info |-> NoInfo]

\* Start without the early return on config.enabled = false
Start_ignoresEnabled ==
  /\ startPc = "idle"
  /\ LET s == attemptRegistration(cur)
     IN /\ Commit(s)
        /\ startPc' = "awaitReg"
        /\ ev' = Event("start", "enabled", s, 0)
  /\ UNCHANGED <<config, enabled, stopPc, failuresSince>>

\* onModuleInit(), up to its await of attemptRegistration()
Start ==
  /\ startPc = "idle"
  /\ IF ~enabled
     THEN /\ Commit(cur)
          /\ startPc' = "done"
          /\ ev' = Event("start", "disabled", cur, 0)
     ELSE LET s == attemptRegistration(cur)
          IN /\ Commit(s)
             /\ startPc' = "awaitReg"
             /\ ev' = Event("start", "enabled", s, 0)
  /\ UNCHANGED <<config, enabled, stopPc, failuresSince>>

\* A register fetch settles: attemptRegistration() resumes; when the caller
\* is onModuleInit() it resumes next and arms the health check.
RegisterResponse ==
  /\ regInFlight > 0
  /\ \E r \in Responses :
       LET s1 == attemptRegistrationResume(cur, r)
           s2 == IF startPc = "awaitReg" THEN startHealthCheck(s1) ELSE s1
       IN /\ Commit(s2)
          /\ ev' = [Event("regResp", outcomeOf(r), s2, 0) EXCEPT
                      !.retryPre = isRetrying]
          /\ failuresSince' = IF ok(r) THEN 0 ELSE failuresSince
  /\ startPc' = IF startPc = "awaitReg" THEN "done" ELSE startPc
  /\ UNCHANGED <<config, enabled, stopPc>>

\* A heartbeat interval timer fires
HeartbeatTick ==
  /\ liveHeartbeat > 0
  /\ LET s == sendHeartbeat(cur)
     IN /\ Commit(s)
        /\ ev' = Event("hbTick", IF registered THEN "sent" ELSE "unregistered", s, 0)
  /\ UNCHANGED <<config, enabled, startPc, stopPc, failuresSince>>

\* A heartbeat fetch settles
HeartbeatResponse ==
  /\ hbInFlight > 0
  /\ \E r \in Responses :
       LET s == sendHeartbeatResume(cur, r)
       IN /\ Commit(s)
          /\ ev' = Event("hbResp", outcomeOf(r), s, consecutiveFailures)
          /\ failuresSince' = IF ok(r) THEN 0
                              ELSE IF outcomeOf(r) = "404" THEN failuresSince
                              ELSE Bump(failuresSince)
  /\ UNCHANGED <<config, enabled, startPc, stopPc>>

\* A retry interval timer fires
RetryTick ==
  /\ liveRetry > 0
  /\ LET s == retryCallback(cur)
     IN /\ Commit(s)
        /\ ev' = Event("retryTick", IF registered THEN "registered" ELSE "unregistered", s, 0)
  /\ UNCHANGED <<config, enabled, startPc, stopPc, failuresSince>>

\* A health-check interval timer fires
HealthCheckTick ==
  /\ liveHealthCheck > 0
  /\ LET s == verifyRegistration(cur)
     IN /\ Commit(s)
        /\ ev' = Event("hcTick", IF registered THEN "sent" ELSE "unregistered", s, 0)
  /\ UNCHANGED <<config, enabled, startPc, stopPc, failuresSince>>

\* A verify fetch settles
VerifyResponse ==
  /\ verInFlight > 0
  /\ \E r \in Responses :
     \E b \in BodiesOf(r) :
       LET s == verifyRegistrationResume(cur, r, b)
       IN /\ Commit(s)
          /\ ev' = [Event("verResp", outcomeOf(r), s, 0) EXCEPT
                      !.shape = b.shape, !.hasSelf = "self" \in b.list,
                      !.class = verifyOutcome(r, b)]
  /\ UNCHANGED <<config, enabled, startPc, stopPc, failuresSince>>

\* Stop awaiting deregister() whatever the value of registered
Stop_alwaysDeregisters ==
  /\ startPc = "done"
  /\ stopPc = "idle"
  /\ LET s == stopTimers(cur)
     IN /\ Commit(s)
        /\ stopPc' = "awaitDereg"
        /\ ev' = Event("stop", "deregister", s, 0)
  /\ UNCHANGED <<config, enabled, startPc, failuresSince>>

\* onModuleDestroy(), up to its await of deregister(); the process lifecycle
\* calls it once, after onModuleInit() has returned
Stop ==
  /\ startPc = "done"
  /\ stopPc = "idle"
  /\ LET s == stopTimers(cur)
     IN /\ Commit(s)
        /\ stopPc' = IF s.registered THEN "awaitDereg" ELSE "done"
        /\ ev' = Event("stop", IF s.registered THEN "deregister" ELSE "none", s, 0)
  /\ UNCHANGED <<config, enabled, startPc, failuresSince>>

\* The deregister fetch settles and onModuleDestroy() returns
DeregisterResponse ==
  /\ stopPc = "awaitDereg"
  /\ \E r \in Responses :
       LET s == onModuleDestroyResume(cur, r)
       IN /\ Commit(s)
          /\ ev' = Event("deregResp", outcomeOf(r), s, 0)
  /\ stopPc' = "done"
  /\ UNCHANGED <<config, enabled, startPc, failuresSince>>

\* The host calls getRegistrationInfo(); ev.info is what it returns
GetRegistrationInfo ==
  /\ Commit(cur)
  /\ ev' = [Event("info", "none", cur, 0) EXCEPT !.info = getRegistrationInfo(cur)]
  /\ UNCHANGED <<config, enabled, startPc, stopPc, failuresSince>>

Next ==
  \/ Start
  \/ RegisterResponse
  \/ HeartbeatTick
  \/ HeartbeatResponse
  \/ RetryTick
  \/ HealthCheckTick
  \/ VerifyResponse
  \/ Stop
  \/ DeregisterResponse
  \/ GetRegistrationInfo

Spec == Init /\ [][Next]_vars

\* The service between onModuleInit() and onModuleDestroy(): the host has
\* not called onModuleDestroy().
NextRunning ==
  \/ Start
  \/ RegisterResponse
  \/ HeartbeatTick
  \/ HeartbeatResponse
  \/ RetryTick
  \/ HealthCheckTick
  \/ VerifyResponse
  \/ GetRegistrationInfo

\* The event loop runs the callback of a live retry interval and every
\* register fetch settles: weak fairness of the retry tick and of the
\* continuation of attemptRegistration().  Nothing is assumed of the other
\* timers and fetches, nor of the host's call of onModuleInit().
SpecLive ==
  /\ Init /\ [][NextRunning]_vars
  /\ WF_vars(RegisterResponse)
  /\ WF_vars(RetryTick)

\* ------------------------------------------------- the simpler variant
\* gateway-registry.service.ts is the same service without the health check,
\* the failure counter and forceReRegister().  Its onModuleInit() up to the
\* await, attemptRegistration(), register(), startHeartbeat(), the retry
\* callback, sendHeartbeat() up to the await, onModuleDestroy(), deregister()
\* and getRegistrationInfo() are the code modelled above (stopTimers() has
\* no health-check handle to clear, and none is ever held here); the two
\* continuations below differ.

\* sendHeartbeatResumeSimple without the test of response.ok: only a
\* rejected fetch unregisters
sendHeartbeatResumeSimple_ignoresStatus(s, r) ==
  LET s1 == [s EXCEPT !.hbInFlight = @ - 1]
  IN IF r.kind # "error" THEN s1
     ELSE attemptRegistration([s1 EXCEPT !.registered = FALSE])

\* sendHeartbeat() of the simpler variant, after its fetch settled with r:
\* any failure sets registered = false and re-attempts the registration,
\* the heartbeat interval is left running
sendHeartbeatResumeSimple(s, r) ==
  LET s1 == [s EXCEPT !.hbInFlight = @ - 1]
  IN IF ok(r) THEN s1
     ELSE attemptRegistration([s1 EXCEPT !.registered = FALSE])

\* A register fetch settles: attemptRegistration() resumes, and
\* onModuleInit() returns after it when it was the caller
RegisterResponseSimple ==
  /\ regInFlight > 0
  /\ \E r \in Responses :
       LET s == attemptRegistrationResume(cur, r)
       IN /\ Commit(s)
          /\ ev' = [Event("regResp", outcomeOf(r), s, 0) EXCEPT
                      !.retryPre = isRetrying]
  /\ startPc' = IF startPc = "awaitReg" THEN "done" ELSE startPc
  /\ UNCHANGED <<config, enabled, stopPc, failuresSince>>

\* A heartbeat fetch settles
HeartbeatResponseSimple ==
  /\ hbInFlight > 0
  /\ \E r \in Responses :
       LET s == sendHeartbeatResumeSimple(cur, r)
       IN /\ Commit(s)
          /\ ev' = Event("hbResp", outcomeOf(r), s, 0)
  /\ UNCHANGED <<config, enabled, startPc, stopPc, failuresSince>>

NextSimple ==
  \/ Start
  \/ RegisterResponseSimple
  \/ HeartbeatTick
  \/ HeartbeatResponseSimple
  \/ RetryTick
  \/ Stop
  \/ DeregisterResponse
  \/ GetRegistrationInfo

SpecSimple == Init /\ [][NextSimple]_vars

\* What the event loop guarantees whatever the gateway does: the callback of
\* a live interval runs.  A pending fetch settles only when the gateway
\* answers or the connection fails (no call passes fetch a timeout or an
\* abort signal), so no fairness is assumed of the continuations.
SpecHung ==
  /\ Init /\ [][Next]_vars
  /\ WF_vars(HeartbeatTick)
  /\ WF_vars(RetryTick)
  /\ WF_vars(HealthCheckTick)

\* ----------------------------------------------------------------- claims
\* The slice that ran last was the continuation of a heartbeat fetch that
\* failed otherwise than by a 404
GenericHeartbeatFailure ==
  ev.op = "hbResp" /\ ev.outcome \in {"non2xx", "error"}

\* The slice that ran last was the continuation of a verify fetch that got no
\* 2xx response
VerifyUnreachable ==
  ev.op = "verResp" /\ ev.outcome \in {"non2xx", "404", "error"}

\* C1: registered and isRetrying are never both true.
C1_NeverRegisteredAndRetrying == ~(registered /\ isRetrying)

\* A registration succeeded after the retry path had been taken and a forced
\* re-registration had dropped the flag (a retry timer is still live).
C1_Witness ==
  /\ ev.op = "regResp" /\ ev.outcome = "2xx"
  /\ registered /\ ~isRetrying /\ liveRetry > 0

\* C2: at most one register request is in flight at any time.
C2_AtMostOneRegisterInFlight == regInFlight <= 1

\* C3: at most one heartbeat interval timer is live at any time.
C3_AtMostOneHeartbeatTimer == liveHeartbeat <= 1

\* C4: when onModuleDestroy() returns after awaiting deregister(), registered
\* is false, whatever the outcome of the deregister call.
C4_StopLeavesUnregistered == ev.op = "deregResp" => ~registered

\* C5: when onModuleDestroy() returns, no interval timer of any kind is live.
C5_NoLiveTimerWhenStopReturns ==
  (stopPc = "done" /\ ev.op \in {"stop", "deregResp"})
    => (liveHeartbeat = 0 /\ liveRetry = 0 /\ liveHealthCheck = 0)

\* C6: a heartbeat response with status 404 runs forceReRegister whatever
\* consecutiveFailures was: registered is false afterwards and one register
\* call was issued in the same slice.
C6_Heartbeat404ForcesReRegister ==
  (ev.op = "hbResp" /\ ev.outcome = "404")
    => (ev.forced /\ ev.issued = 1 /\ ~registered /\ regInFlight >= 1)

\* A 404 arrived while consecutiveFailures was 0.
C6_Witness ==
  /\ ev.op = "hbResp" /\ ev.outcome = "404" /\ ev.cfPre = 0
  /\ ev.forced /\ ev.issued = 1

\* C7: a generic heartbeat failure forces re-registration exactly when it is
\* the 3rd since the last successful registration or heartbeat success, never
\* when it is the 1st or 2nd.
C7_ForcedExactlyOnThirdFailure ==
  GenericHeartbeatFailure => (ev.forced <=> failuresSince = maxConsecutiveFailures)

\* C8: consecutiveFailures is 0 right after every heartbeat success and right
\* after every successful registration attempt.
C8_CounterZeroAfterSuccess ==
  (ev.op \in {"hbResp", "regResp"} /\ ev.outcome = "2xx") => consecutiveFailures = 0

\* C9: a verify response that is 2xx and lists instances without this
\* instance's id runs forceReRegister: registered is false afterwards and one
\* register call was issued in the same slice.
C9_AbsentForcesReRegister ==
  (ev.op = "verResp" /\ ev.outcome = "2xx" /\ ev.shape \in {"array", "objList"}
     /\ ~ev.hasSelf)
    => (ev.forced /\ ev.issued = 1 /\ ~registered /\ regInFlight >= 1)

\* A listing of other instances only has forced a re-registration while the
\* heartbeat timer of the registration was running.
C9_Witness ==
  /\ ev.op = "verResp" /\ ev.outcome = "2xx" /\ ev.shape = "array" /\ ~ev.hasSelf
  /\ ev.forced /\ ~registered /\ liveHeartbeat = 0 /\ startPc = "done"

\* C10: the continuation of a verify fetch that got a non-2xx response or a
\* transport error changes neither the flags, the counter nor any timer, and
\* issues no register call.
C10_UnreachableChangesNothing ==
  [][VerifyUnreachable' /\ verInFlight' < verInFlight
       => UNCHANGED <<registered, isRetrying, consecutiveFailures,
                      heartbeatTimer, retryTimer, healthCheckTimer,
                      liveHeartbeat, liveRetry, liveHealthCheck, regInFlight>>]_vars

\* An unreachable verify result was processed while registered.
C10_Witness == VerifyUnreachable /\ registered /\ ~ev.forced /\ ev.issued = 0

\* The slice that ran last was the continuation of a verify fetch that got a
\* 2xx listing (an array, or an object with an instances array) holding this
\* instance's id
VerifyListsSelf ==
  /\ ev.op = "verResp" /\ ev.outcome = "2xx"
  /\ ev.shape \in {"array", "objList"} /\ ev.hasSelf

\* C11: the continuation of a verify fetch that got a 2xx listing holding
\* this instance's id changes neither the flags, the counter nor any timer,
\* and issues no register call.
C11_PresentChangesNothing ==
  [][VerifyListsSelf' /\ verInFlight' < verInFlight
       => UNCHANGED <<registered, isRetrying, consecutiveFailures,
                      heartbeatTimer, retryTimer, healthCheckTimer,
                      liveHeartbeat, liveRetry, liveHealthCheck, regInFlight>>]_vars

\* A listing given as {instances: [...]} holding this instance was processed
\* while registered.
C11_Witness ==
  VerifyListsSelf /\ ev.shape = "objList" /\ registered /\ ~ev.forced /\ ev.issued = 0

\* C12: with config.enabled = false no request of any kind is ever issued,
\* no timer is ever armed and registered is false, in every reachable state.
C12_DisabledIsInert ==
  ~enabled =>
    /\ regInFlight = 0 /\ hbInFlight = 0 /\ verInFlight = 0
    /\ stopPc # "awaitDereg" /\ ev.issued = 0
    /\ liveHeartbeat = 0 /\ liveRetry = 0 /\ liveHealthCheck = 0
    /\ ~heartbeatTimer /\ ~retryTimer /\ ~healthCheckTimer
    /\ ~registered

\* A disabled service was started and then stopped.
C12_Witness == ~enabled /\ startPc = "done" /\ stopPc = "done" /\ ev.op = "stop"

\* C13: a failed register attempt that finds isRetrying false and no retry
\* timer sets isRetrying and arms one retry timer; a successful attempt that
\* finds the retry timer armed leaves registered true, isRetrying false, the
\* retry timer cleared and the heartbeat timer armed; a failed attempt that
\* finds isRetrying true arms no retry timer.
C13_RetryScenario ==
  [][(ev'.op = "regResp" /\ regInFlight' < regInFlight) =>
       /\ (ev'.outcome # "2xx" /\ ~isRetrying /\ liveRetry = 0)
            => (isRetrying' /\ retryTimer' /\ liveRetry' = 1 /\ ~registered')
       /\ (ev'.outcome = "2xx" /\ isRetrying /\ retryTimer /\ liveRetry = 1)
            => (registered' /\ ~isRetrying' /\ ~retryTimer' /\ liveRetry' = 0
                /\ heartbeatTimer' /\ liveHeartbeat' >= 1)
       /\ (ev'.outcome # "2xx" /\ isRetrying)
            => (isRetrying' /\ liveRetry' = liveRetry /\ retryTimer' = retryTimer)]_vars

\* A register call succeeded while the service was retrying: registered, not
\* retrying, no retry timer, heartbeat timer armed.
C13_Witness ==
  /\ ev.op = "regResp" /\ ev.outcome = "2xx" /\ ev.retryPre
  /\ registered /\ ~isRetrying /\ ~retryTimer /\ liveRetry = 0 /\ heartbeatTimer

\* C14: no slice raises an error to its caller: onModuleInit(),
\* onModuleDestroy() and every timer callback complete normally for every
\* outcome of the register, heartbeat, verify and deregister calls.
C14_NoErrorRaised == ~ev.raised

\* onModuleDestroy() returned normally after the deregister fetch rejected.
C14_Witness ==
  ev.op = "deregResp" /\ ev.outcome = "error" /\ stopPc = "done" /\ ~ev.raised

\* C15: isRetrying is true exactly when a retry interval timer is live.
C15_RetryingIffRetryTimerLive == isRetrying <=> liveRetry > 0

\* C16: at most one retry interval timer is live at any time.
C16_AtMostOneRetryTimer == liveRetry <= 1

\* C17: with config.enabled = true, from the return of onModuleInit() until
\* onModuleDestroy() is called exactly one health-check interval timer is
\* live, whether the first attempt succeeded or failed and whatever forced
\* re-registrations happened.
C17_HealthCheckArmedWhileRunning ==
  (enabled /\ startPc = "done" /\ stopPc = "idle")
    => (healthCheckTimer /\ liveHealthCheck = 1)

\* A forced re-registration has just run and the health-check timer is live.
C17_Witness ==
  /\ enabled /\ startPc = "done" /\ stopPc = "idle"
  /\ ev.forced /\ healthCheckTimer /\ liveHealthCheck = 1

\* C19: once onModuleDestroy() has returned, no slice issues a register
\* call, turns registered from false to true or arms a timer.
C19_StopIsTerminal ==
  [][stopPc = "done" =>
       /\ regInFlight' <= regInFlight
       /\ (registered' => registered)
       /\ liveHeartbeat' <= liveHeartbeat
       /\ liveRetry' <= liveRetry
       /\ liveHealthCheck' <= liveHealthCheck]_vars

\* The call that settled last was answered in favour of the instance: a
\* register or heartbeat call got a 2xx response, a verify call a 2xx listing
\* holding this instance
Healthy ==
  /\ ev.op \in {"regResp", "hbResp"} => ev.outcome = "2xx"
  /\ ev.op = "verResp" => VerifyListsSelf

\* C18: with config.enabled = true, onModuleInit() called and
\* onModuleDestroy() never called, if from some point on every call that
\* settles is answered in favour of the instance, then registered is
\* eventually true and stays true.
C18_EventuallyStaysRegistered ==
  (enabled /\ <>(startPc # "idle") /\ [](stopPc = "idle") /\ <>[]Healthy)
    => <>[]registered

\* The service is registered again through the retry timer, after a forced
\* re-registration had failed while an earlier retry timer was armed.
C18_Witness ==
  /\ registered /\ stopPc = "idle" /\ ev.op = "regResp" /\ ev.outcome = "2xx"
  /\ ev.retryPre /\ liveRetry = 1 /\ regInFlight = 0

\* The body of the verify response was readable as a listing: an array, an
\* object with an instances array, an object without instances, or null
VerifyReadable == ev.shape \in {"array", "objList", "objMissing", "null"}

\* C20 as claimed: a verify response is Present exactly when it is 2xx and
\* its listing holds this instance, every other 2xx body is Absent, and a
\* non-2xx response or transport error is Unreachable.
C20_ClassifiesVerify ==
  ev.op = "verResp" =>
    /\ ev.class = "present" <=> VerifyListsSelf
    /\ (ev.outcome = "2xx" /\ ~VerifyListsSelf) => ev.class = "absent"
    /\ ev.outcome # "2xx" => ev.class \in {"non2xx", "error"}

\* C20 as amended: a 2xx body is Absent only when it is readable as a
\* listing and holds no record of this instance; a 2xx body that is not JSON
\* or whose instances is a truthy non-array is caught like a transport error.
\* Only Absent forces re-registration.
C20_ClassifiesReadableVerify ==
  ev.op = "verResp" =>
    /\ ev.class = "present" <=> VerifyListsSelf
    /\ ev.class = "absent" <=> (ev.outcome = "2xx" /\ VerifyReadable /\ ~VerifyListsSelf)
    /\ ev.outcome # "2xx" => ev.class \in {"non2xx", "error"}
    /\ (ev.outcome = "2xx" /\ ~VerifyReadable) => ev.class = "throws"
    /\ ev.forced <=> ev.class = "absent"

\* An object without instances was classified Absent and forced a
\* re-registration.
C20_Witness ==
  /\ ev.op = "verResp" /\ ev.outcome = "2xx" /\ ev.shape = "objMissing"
  /\ ev.class = "absent" /\ ev.forced

\* C24: forceReRegister() leaves, in the slice that runs it, registered
\* false, consecutiveFailures 0, isRetrying false, no heartbeat interval
\* live and one register call issued; and from then on a heartbeat interval
\* goes live only in the continuation of a register fetch that succeeded.
C24_ForceLeavesNoHeartbeat ==
  /\ [](ev.forced => /\ ~registered /\ consecutiveFailures = 0 /\ ~isRetrying
                     /\ ~heartbeatTimer /\ liveHeartbeat = 0
                     /\ ev.issued = 1)
  /\ [][liveHeartbeat' > liveHeartbeat
          => ev'.op = "regResp" /\ ev'.outcome = "2xx"]_vars

\* C25: a retry tick that finds registered true issues no register call and
\* leaves registered, isRetrying, consecutiveFailures, every timer and every
\* fetch in flight as they were.
C25_RetryTickWhileRegisteredIsNoOp ==
  [][(ev'.op = "retryTick" /\ registered)
       => /\ ev'.issued = 0 /\ ~ev'.forced
          /\ UNCHANGED <<registered, isRetrying, consecutiveFailures,
                         heartbeatTimer, retryTimer, healthCheckTimer,
                         liveHeartbeat, liveRetry, liveHealthCheck,
                         regInFlight, hbInFlight, verInFlight>>]_vars

\* A retry interval that outlived the registration fired and did nothing.
C25_Witness ==
  /\ ev.op = "retryTick" /\ ev.outcome = "registered" /\ ev.issued = 0
  /\ registered /\ liveRetry >= 1

\* C27: onModuleDestroy() awaits deregister() exactly when registered is true
\* once the timers are cancelled, issues no other call, and never awaits it a
\* second time.
C27_DeregisterOnlyIfRegistered ==
  [][/\ (stopPc = "idle" /\ stopPc' # "idle")
          => /\ (stopPc' = "awaitDereg") = registered
             /\ (stopPc' = "done") = ~registered
             /\ ev'.issued = 0
             /\ UNCHANGED <<regInFlight, hbInFlight, verInFlight>>
     /\ (stopPc' = "awaitDereg") => stopPc \in {"idle", "awaitDereg"}
     /\ (stopPc # "idle") => stopPc' # "idle"]_vars

\* An enabled service is stopped while unregistered, a register fetch still
\* in flight: onModuleDestroy() returns without a network call.
C27_Witness ==
  /\ ev.op = "stop" /\ ev.outcome = "none" /\ stopPc = "done"
  /\ enabled /\ ~registered /\ regInFlight >= 1

\* C28: registered = false implies consecutiveFailures = 0: a heartbeat
\* failure that settles after registered became false is not counted.
C28_CounterZeroWhileUnregistered ==
  ~registered => consecutiveFailures = 0

\* C29: registered turns true only in the continuation of a register fetch
\* that settled with a 2xx response.
C29_RegisteredOnlyOnRegister2xx ==
  [][(~registered /\ registered')
       => ev'.op = "regResp" /\ ev'.outcome = "2xx"]_vars

\* The first register call of onModuleInit() got a 2xx response.
C29_Witness ==
  /\ ev.op = "regResp" /\ ev.outcome = "2xx" /\ ~ev.retryPre
  /\ registered /\ liveRetry = 0 /\ liveHealthCheck = 1 /\ liveHeartbeat = 1

\* C30: before onModuleDestroy() is called, registered = true implies that a
\* heartbeat interval is armed.
C30_RegisteredHasHeartbeat ==
  (stopPc = "idle" /\ registered) => (heartbeatTimer /\ liveHeartbeat >= 1)

\* A heartbeat failure below the threshold was counted: the service is still
\* registered and its heartbeat interval is still armed.
C30_Witness ==
  /\ ev.op = "hbResp" /\ ev.outcome = "non2xx" /\ ~ev.forced
  /\ stopPc = "idle" /\ registered /\ heartbeatTimer /\ liveHeartbeat >= 1

\* C23: getRegistrationInfo() leaves the flags, the counter, every timer and
\* every fetch in flight as they were and issues no call; the registered
\* field it returns is the current flag, its serviceName, instanceId, baseUrl
\* and gatewayUrl are those of the configuration, which no step changes.
C23_InfoIsReadOnlySnapshot ==
  [][/\ config' = config
     /\ ev'.op = "info"
          => /\ UNCHANGED <<enabled, registered, isRetrying, consecutiveFailures,
                            heartbeatTimer, retryTimer, healthCheckTimer,
                            liveHeartbeat, liveRetry, liveHealthCheck,
                            regInFlight, hbInFlight, verInFlight,
                            startPc, stopPc>>
             /\ ev'.issued = 0 /\ ~ev'.forced
             /\ ev'.info.registered = registered
             /\ ev'.info.serviceName = config.serviceName
             /\ ev'.info.instanceId = config.instanceId
             /\ ev'.info.baseUrl = config.baseUrl
             /\ ev'.info.gatewayUrl = config.gatewayUrl]_vars

\* getRegistrationInfo() was called while registered, a heartbeat in flight
\* and a retry interval that outlived the registration still live.
C23_Witness ==
  /\ ev.op = "info" /\ ev.info.registered /\ ev.info.instanceId = config.instanceId
  /\ registered /\ hbInFlight = 1 /\ liveRetry >= 1

\* C21: once onModuleDestroy() awaits deregister() it eventually returns,
\* also when the gateway never answers the DELETE.
C21_StopEventuallyCompletes ==
  (stopPc = "awaitDereg") ~> (stopPc = "done")

\* C22: onModuleInit() of an enabled service issues exactly one register
\* call, issues none when it resumes (retries are left to the retry
\* interval), and eventually returns, also when the gateway never answers
\* that first call.
C22_StartAttemptsOnceAndReturns ==
  /\ [][(startPc = "idle" /\ startPc' = "awaitReg")
          => (ev'.issued = 1 /\ regInFlight' = 1)]_vars
  /\ [][(startPc = "awaitReg" /\ startPc' = "done") => ev'.issued = 0]_vars
  /\ (startPc = "awaitReg") ~> (startPc = "done")

\* C26: in the simpler variant at most one heartbeat interval is live in
\* every reachable state.
C26_SimpleAtMostOneHeartbeatTimer ==
  liveHeartbeat \in {0, 1}

\* C31: consecutiveFailures is in 0..2 in every reachable state: the failure
\* that takes it to the threshold resets it in the same slice.
C31_CounterBelowThreshold ==
  consecutiveFailures \in 0..(maxConsecutiveFailures - 1)

\* The third counted failure ran forceReRegister(): the counter went from 2
\* back to 0.
C31_Witness ==
  /\ ev.op = "hbResp" /\ ev.outcome \in {"error", "non2xx"}
  /\ ev.cfPre = maxConsecutiveFailures - 1 /\ ev.forced
  /\ consecutiveFailures = 0

\* C32: a heartbeat tick that finds registered false sends no heartbeat and
\* issues one register call; a health-check tick that finds registered false
\* sends no verify request and changes nothing.
C32_TicksWhileUnregistered ==
  [][/\ (ev'.op = "hbTick" /\ ~registered)
          => /\ hbInFlight' = hbInFlight
             /\ regInFlight' = regInFlight + 1 /\ ev'.issued = 1
             /\ UNCHANGED <<registered, isRetrying, consecutiveFailures,
                            heartbeatTimer, retryTimer, healthCheckTimer,
                            liveHeartbeat, liveRetry, liveHealthCheck,
                            verInFlight>>
     /\ (ev'.op = "hcTick" /\ ~registered)
          => /\ ev'.issued = 0 /\ ~ev'.forced
             /\ UNCHANGED <<registered, isRetrying, consecutiveFailures,
                            heartbeatTimer, retryTimer, healthCheckTimer,
                            liveHeartbeat, liveRetry, liveHealthCheck,
                            regInFlight, hbInFlight, verInFlight>>]_vars

\* A heartbeat interval fired while unregistered and a register call went
\* out instead of a heartbeat, the health check armed.
C32_Witness ==
  /\ ev.op = "hbTick" /\ ev.outcome = "unregistered" /\ ev.issued = 1
  /\ ~registered /\ hbInFlight = 0 /\ regInFlight >= 1 /\ liveHealthCheck = 1

\* C33: in the simpler variant the continuation of a heartbeat that failed
\* (transport error or any status that is not 2xx) leaves registered false
\* and one more register call in flight, and counts nothing; the
\* continuation of a 2xx heartbeat changes neither a flag, nor the counter,
\* nor a timer, and issues nothing.
C33_SimpleFailedHeartbeatReRegisters ==
  [][(ev'.op = "hbResp" /\ hbInFlight' < hbInFlight)
       => /\ UNCHANGED <<consecutiveFailures, isRetrying, heartbeatTimer,
                         retryTimer, healthCheckTimer, liveHeartbeat,
                         liveRetry, liveHealthCheck, verInFlight>>
          /\ IF ev'.outcome = "2xx"
             THEN /\ UNCHANGED <<registered, regInFlight>>
                  /\ ev'.issued = 0
             ELSE /\ ~registered'
                  /\ regInFlight' = regInFlight + 1
                  /\ ev'.issued = 1]_vars

\* A heartbeat of the simpler variant was answered 500 while registered.
C33_Witness ==
  /\ ev.op = "hbResp" /\ ev.outcome = "non2xx" /\ ev.issued = 1
  /\ ~registered /\ regInFlight = 1 /\ liveHeartbeat = 1 /\ healthCheckTimer = FALSE
====
